---- MODULE Spec2Model ----
(***************************************************************************)
(* Centauri Carbon Spool Manager: the spool-tracking coordinator, the      *)
(* history ledger, the spool services and the lock-guarded entity setters. *)
(*                                                                         *)
(* Lengths are whole millimetres.  Extrusion readings are floats in the    *)
(* code; here a reading is a whole number of half millimetres, so that     *)
(* round() has ties to decide.  Densities and diameters are hundredths.    *)
(* An entity's state string is modelled by the value it parses to; the     *)
(* history text entity's state is the decimal count str(len(_history)).    *)
(* Weights are grams in the services and micrograms in the weight formula. *)
(***************************************************************************)
EXTENDS Integers, Sequences, FiniteSets

\* ------------------------------------------------------------------ bounds

NumSpools == 2
MaxPrints == 3
MaxServicePrints == 1
MaxLedgerPrints == 11
MaxTaskPrints == 2
MaxPayloadLen == 11
MaxReading == 4
MaxWeight == 1
MaxIndex == 1
MaxReloads == 2
MaxReloadPrints == 3

\* ------------------------------------------------------- program constants

HistoryLimit == 10
native_min_value == 0
native_max_value == 500000
DefaultDensity == 124
DefaultDiameter == 175
DefaultSetWeight == 1000
PiE4 == 31416

Spools == 1..NumSpools

SpoolOption(n) ==
    CASE n = 1 -> "Spool 1"
      [] n = 2 -> "Spool 2"
      [] n = 3 -> "Spool 3"
      [] OTHER -> "Spool 4"

ActiveSpoolOptions == {"None"} \cup {SpoolOption(n) : n \in Spools}

\* the entity ids built with a fixed spool number
SpoolNumOf_first(option) == 1

\* spool_num = self._active_spool.replace("Spool ", ""), used in the entity ids
SpoolNumOf(option) == CHOOSE n \in 1..4 : SpoolOption(n) = option

\* Values the printer's status entity takes; NoState is the absent state
\* object (old_state / new_state is None in the event).
NoState == "<none>"
Statuses == {"idle", "complete", "printing", "RUNNING"}

lower(s) ==
    CASE s = "RUNNING" -> "running"
      [] OTHER -> s

IsPrinting(s) == lower(s) \in {"printing", "running"}

\* An extrusion state: ok = FALSE is "unknown"/"unavailable" (or no state),
\* otherwise v is the reading in half millimetres.
Unavailable == [ok |-> FALSE, v |-> 0]
Reading(h) == [ok |-> TRUE, v |-> h]
Readings == {Unavailable} \cup {Reading(h) : h \in {0, 3, MaxReading}}

\* Python's round(x) for x = h/2: round half to even.
round(h) ==
    IF h % 2 = 0 THEN h \div 2
    ELSE LET lo == (h - 1) \div 2
         IN  IF lo % 2 = 0 THEN lo ELSE lo + 1

max0(x) == IF x > 0 THEN x ELSE 0

\* ------------------------------------------------------------------- JSON

\* A decoded JSON value: a number, a list of values, or a dict (a history
\* entry).  A payload string is modelled by the value json.loads gives.
JNum(k) == [t |-> "num", num |-> k]
JList(s) == [t |-> "list", items |-> s]
\* a state string json.loads cannot parse; it raises ValueError
JInvalid == [t |-> "invalid"]

json_dumps(entries) == JList(entries)
json_loads(payload) == payload
isinstance_list(data) == data.t = "list"
isinstance_dict(data) == data.t = "dict"

\* cv.ensure_list: a list as it is, anything else wrapped in a list
ensure_list(data) == IF isinstance_list(data) THEN data.items ELSE <<data>>

VARIABLES
    printer_status,         \* state of the printer's *_current_status entity
    total_extrusion,        \* state of the printer's *_total_extrusion entity
    enable_spool_tracking,  \* switch.centauri_spool_manager_enable_spool_tracking
    active_spool,           \* select.centauri_spool_manager_active_spool
    current_print_spool,    \* text.centauri_spool_manager_current_print_spool
    filament_diameter,      \* number.centauri_spool_manager_filament_diameter
    name,                   \* text ..._spool_n_name
    material,               \* select ..._spool_n_material
    density,                \* number ..._spool_n_density
    initial_length,         \* number ..._spool_n_initial_length
    used_length,            \* number ..._spool_n_used_length
    last_print_length,      \* number ..._spool_n_last_print_length
    set_weight,             \* number ..._spool_n_set_weight
    lock,                   \* switch ..._spool_n_lock
    history,                \* SpoolHistoryText._history of spool n
    tracking_active,        \* coordinator._tracking_active
    print_start_extrusion,  \* coordinator._print_start_extrusion
    coord_active_spool,     \* coordinator._active_spool
    state_sensor,           \* SpoolStateSensor._attr_native_value of spool n
    end_task,               \* the suspended _handle_print_end task, if any
    stale,                  \* coordinators of earlier setups, still listening
    input,                  \* arguments of the weight/length/append functions
    output,                 \* what the function applied to input returned
    clock,                  \* datetime.now(): one tick per tracked print end
    start_tracked,          \* did the last print start begin a tracked session
    ended_print,            \* what the last status change charged, if it did
    lastOp                  \* the operation of the last step and its outcome

printer == <<printer_status, total_extrusion>>
globals == <<enable_spool_tracking, active_spool, current_print_spool,
             filament_diameter>>
config == <<name, material, density, initial_length, set_weight, lock>>
usage == <<used_length, last_print_length, history>>
coordinator == <<tracking_active, print_start_extrusion, coord_active_spool>>
sensors == <<state_sensor>>
tasks == <<end_task>>
instances == <<stale>>
calc == <<input, output>>
ghost == <<clock, start_tracked, ended_print>>
vars == <<printer, globals, config, usage, sensors, coordinator, instances, tasks,
          calc, ghost, lastOp>>

\* A service call or an entity setter is recorded with its arguments; a
\* change of the printer status is recorded as "status_change", any other
\* event the coordinator listens to as "event".
Op(op, n, val, err) == [op |-> op, spool |-> n, val |-> val, err |-> err]

\* No _handle_print_end task is suspended
NoTask == [pc |-> "done", spool |-> 0, extruded |-> 0, new_used |-> 0]

\* The last status change was no print end that reached "Update spool usage"
\* with a session spool
NoPrint == [spool |-> 0, used |-> 0, extruded |-> 0]

\* No function has been applied
NoInput == [f |-> "none"]

\* The state string of the history text entity: _attr_native_value is
\* str(len(self._history)), the full list is only in the attributes.
SpoolHistoryText_state(n) == JNum(Len(history[n]))

Init ==
    /\ printer_status = "idle"
    /\ total_extrusion = Reading(0)
    /\ enable_spool_tracking = FALSE
    /\ active_spool = "None"
    /\ current_print_spool = ""
    /\ filament_diameter = DefaultDiameter
    /\ name = [n \in Spools |-> SpoolOption(n)]
    /\ material = [n \in Spools |-> "PLA"]
    /\ density = [n \in Spools |-> DefaultDensity]
    /\ initial_length = [n \in Spools |-> 0]
    /\ used_length = [n \in Spools |-> 0]
    /\ last_print_length = [n \in Spools |-> 0]
    /\ set_weight = [n \in Spools |-> DefaultSetWeight]
    /\ lock = [n \in Spools |-> TRUE]
    /\ history = [n \in Spools |-> <<>>]
    /\ tracking_active = FALSE
    /\ print_start_extrusion = 0
    /\ coord_active_spool = NoState
    /\ state_sensor = [n \in Spools |-> "ready"]
    /\ end_task = NoTask
    /\ stale = <<>>
    /\ input = NoInput
    /\ output = NoInput
    /\ clock = 0
    /\ start_tracked = FALSE
    /\ ended_print = NoPrint
    /\ lastOp = Op("init", 0, 0, "none")

\* ------------------------------------------------------ derived spool state

\* the state _update_state computes, with a spool that is active reported
\* as active even when it is used up
spool_state_active_first(n) ==
    IF active_spool = SpoolOption(n) THEN "active"
    ELSE IF used_length[n] >= initial_length[n] /\ initial_length[n] > 0 THEN "empty"
    ELSE IF initial_length[n] > 0 THEN "configured"
    ELSE "ready"

\* SpoolStateSensor._update_state: the state computed from the current
\* initial length, used length and active-spool selection
spool_state(n) ==
    IF used_length[n] >= initial_length[n] /\ initial_length[n] > 0 THEN "empty"
    ELSE IF active_spool = SpoolOption(n) THEN "active"
    ELSE IF initial_length[n] > 0 THEN "configured"
    ELSE "ready"

\* the entities the state sensor of spool n listens to
entities_to_track(n) == <<initial_length[n], used_length[n], lock[n], active_spool>>

\* SpoolStateSensor._handle_state_change: with the state change of a tracked
\* entity the sensor of spool n stores the state computed from the new values.
SpoolStateSensor_handle_state_change ==
    state_sensor' =
        [n \in Spools |->
            IF entities_to_track(n)' # entities_to_track(n)
            THEN spool_state(n)'
            ELSE state_sensor[n]]

\* ------------------------------------------------------ host service calls

\* number.set_value accepting any value up to the maximum
number_below_max(value) ==
    value <= native_max_value

\* number.set_value on a length entity: the host rejects a value outside
\* [native_min_value, native_max_value] with an error and stores nothing.
number_in_range(value) == native_min_value <= value /\ value <= native_max_value

\* ------------------------------------------------------- weight and length

\* pi * diameter^2 * density / 4, times 10 (diameter, density in hundredths)
PiKTimes10(density100, diameter100) ==
    LET K == diameter100 * diameter100 * density100
    IN  (K \div 1000) * PiE4 + ((K % 1000) * PiE4) \div 1000

\* round(num / den), half to even, for num >= 0 and den > 0
round_div(num, den) ==
    LET q == num \div den
        r == num % den
    IN  IF 2 * r > den THEN q + 1
        ELSE IF 2 * r < den THEN q
        ELSE IF q % 2 = 0 THEN q ELSE q + 1

\* pi * r^2 * length / 1000 * density with the diameter taken for the radius
weight_ug_diameter_as_radius(length_mm, density100, diameter100) ==
    LET a == PiKTimes10(density100, diameter100) \div 250
    IN  a * (length_mm \div 40) + round_div(a * (length_mm % 40), 40)

\* weight_g = pi * r^2 * length / 1000 * density before it is rounded for
\* display, in micrograms (0 <= length_mm)
weight_ug(length_mm, density100, diameter100) ==
    LET a == PiKTimes10(density100, diameter100) \div 1000
    IN  a * (length_mm \div 40) + round_div(a * (length_mm % 40), 40)

\* round(pi * r^2 * length / 1000 * density, 1), in tenths of a gram
weight_g(length_mm, density100, diameter100) ==
    LET a == PiKTimes10(density100, diameter100) \div 100
        sign == IF length_mm < 0 THEN 0 - 1 ELSE 1
    IN  sign * round_div(a * sign * length_mm, 40000000)

\* ---------------------------------------------------------- history ledger

LastN(s, k) == IF Len(s) <= k THEN s ELSE SubSeq(s, Len(s) - k + 1, Len(s))

\* SpoolHistoryText.async_set_value: a JSON list replaces _history, anything
\* else is ignored with a warning.
SpoolHistoryText_async_set_value(n, value) ==
    LET data == json_loads(value)
    IN  IF isinstance_list(data)
        THEN [history EXCEPT ![n] = data.items]
        ELSE history

\* _append_print_history, "Decode existing JSON list (if any)": entries is
\* the decoded payload when it is a list, [] when it is anything else or
\* json.loads raised.
decode_payload(payload) ==
    IF payload = JInvalid THEN <<>>
    ELSE LET data == json_loads(payload)
         IN  IF isinstance_list(data) THEN data.items ELSE <<>>

\* the entries decoded from the state of the history entity of spool n
decoded_entries(n) == decode_payload(SpoolHistoryText_state(n))

new_entry(n, spool_name, extruded_length) ==
    [t |-> "dict", date |-> clock + 1, spool |-> spool_name, file |-> "Unknown",
     length_mm |-> extruded_length,
     weight_g |-> weight_g(extruded_length, density[n], filament_diameter)]

\* entries.append(entry) with no truncation
appended_entries_untruncated(entries, entry) == Append(entries, entry)

\* entries.append(entry); entries = entries[-10:]
appended_entries(entries, entry) == LastN(Append(entries, entry), HistoryLimit)

\* _append_print_history adding to the list the history entity holds, with
\* no truncation
append_print_history_unbounded(n, spool_name, extruded_length) ==
    [history EXCEPT ![n] = Append(history[n], new_entry(n, spool_name, extruded_length))]

\* The history of every spool after _append_print_history(spool_num, ...).
append_print_history(n, spool_name, extruded_length) ==
    SpoolHistoryText_async_set_value(n,
        json_dumps(appended_entries(decoded_entries(n),
                                    new_entry(n, spool_name, extruded_length))))

\* _append_print_history for spool 1 reading payload as the state of the
\* history entity: the argument and what is stored afterwards are recorded.
append_print_history_to(payload, extruded_length) ==
    /\ input' = [f |-> "append", payload |-> payload, length |-> extruded_length]
    /\ history' = SpoolHistoryText_async_set_value(1,
            json_dumps(appended_entries(decode_payload(payload),
                                        new_entry(1, name[1], extruded_length))))
    /\ output' = [f |-> "append", entries |-> history'[1]]
    /\ lastOp' = Op("append", 1, extruded_length, "none")
    /\ UNCHANGED <<printer, globals, config, used_length, last_print_length,
                   coordinator, tasks, ghost>>
    /\ UNCHANGED instances
    /\ SpoolStateSensor_handle_state_change

\* The weight formula applied to a length, a density and a diameter
weight_of_length(length_mm, density100, diameter100) ==
    /\ input' = [f |-> "weight", length |-> length_mm, density |-> density100,
                 diameter |-> diameter100]
    /\ output' = [f |-> "weight", ug |-> weight_ug(length_mm, density100, diameter100)]
    /\ lastOp' = Op("weight", 0, length_mm, "none")
    /\ UNCHANGED <<printer, globals, config, usage, coordinator, tasks, ghost>>
    /\ UNCHANGED instances
    /\ SpoolStateSensor_handle_state_change

\* --------------------------------------------------------- printer status
\* An optional number: None, or a float that is present (0 included)
None == [some |-> FALSE, v |-> 0]
Float(v) == [some |-> TRUE, v |-> v]

\* The keys the printer firmware uses for the two extrusion fields: the plain
\* name, or the name's bytes written in hex with a trailing NUL
TotalExtrusionKey == "TotalExtrusion"
TotalExtrusionHexKey == "54 6F 74 61 6C 45 78 74 72 75 73 69 6F 6E 00"
CurrentExtrusionKey == "CurrentExtrusion"
CurrentExtrusionHexKey == "43 75 72 72 65 6E 74 45 78 74 72 75 73 69 6F 6E 00"
ExtrusionKeys ==
    {TotalExtrusionKey, TotalExtrusionHexKey,
     CurrentExtrusionKey, CurrentExtrusionHexKey}

\* dict.get(key): the value under the key, None when the key is absent
dict_get(data, key) == IF key \in DOMAIN data THEN Float(data[key]) ELSE None

\* python's "a or b" on optional numbers: None and 0 are both falsy
or_else(a, b) == IF a.some /\ a.v # 0 THEN a ELSE b

\* the lookup written with "or": a plain value of 0 counts as missing
extrusion_field_truthy(data, plain_key, hex_key) ==
    or_else(dict_get(data, plain_key), dict_get(data, hex_key))

\* One extrusion field of PrintInfo: the plain key when present, else the
\* hex-encoded key, else None
extrusion_field(data, plain_key, hex_key) ==
    IF plain_key \in DOMAIN data THEN dict_get(data, plain_key)
    ELSE dict_get(data, hex_key)

\* PrintInfo as parsed from the "PrintInfo" object of a status message
PrintInfo(data) ==
    [total_extrusion |->
        extrusion_field(data, TotalExtrusionKey, TotalExtrusionHexKey),
     current_extrusion |->
        extrusion_field(data, CurrentExtrusionKey, CurrentExtrusionHexKey)]

\* value_fn of the total/current extrusion sensors: the parsed field when
\* printer data with a status and print info is there, else None
total_extrusion_value_fn(printer_data) ==
    IF printer_data.present THEN printer_data.print_info.total_extrusion
    ELSE None
current_extrusion_value_fn(printer_data) ==
    IF printer_data.present THEN printer_data.print_info.current_extrusion
    ELSE None

\* PrinterStatus.from_json on a status message whose PrintInfo object is
\* data, followed by the two sensors reading the result
PrinterStatus_from_json(data) ==
    /\ input' = [f |-> "from_json", print_info |-> data]
    /\ LET printer_data == [present |-> TRUE, print_info |-> PrintInfo(data)]
       IN  output' = [f |-> "from_json",
                      print_info |-> printer_data.print_info,
                      total_sensor |-> total_extrusion_value_fn(printer_data),
                      current_sensor |-> current_extrusion_value_fn(printer_data)]
    /\ lastOp' = Op("from_json", 0, 0, "none")
    /\ UNCHANGED <<printer, globals, config, usage, coordinator, tasks, ghost>>
    /\ UNCHANGED instances
    /\ SpoolStateSensor_handle_state_change

\* ------------------------------------------------------------ coordinator

\* handle_print_start without the check of the tracking switch
handle_print_start_ignoring_switch ==
    IF active_spool = "None"
    THEN UNCHANGED <<coordinator, current_print_spool>>
    ELSE /\ coord_active_spool' = active_spool
         /\ IF total_extrusion.ok
            THEN /\ print_start_extrusion' = total_extrusion.v
                 /\ tracking_active' = TRUE
                 /\ current_print_spool' = active_spool
            ELSE UNCHANGED <<print_start_extrusion, tracking_active,
                             current_print_spool>>

\* handle_print_start taking 0 as the baseline when the reading is unavailable
handle_print_start_default_baseline ==
    IF ~enable_spool_tracking \/ active_spool = "None"
    THEN UNCHANGED <<coordinator, current_print_spool>>
    ELSE /\ coord_active_spool' = active_spool
         /\ print_start_extrusion' = IF total_extrusion.ok THEN total_extrusion.v ELSE 0
         /\ tracking_active' = TRUE
         /\ current_print_spool' = active_spool

\* _handle_print_start
handle_print_start ==
    IF ~enable_spool_tracking \/ active_spool = "None"
    THEN UNCHANGED <<coordinator, current_print_spool>>
    ELSE /\ coord_active_spool' = active_spool
         /\ IF total_extrusion.ok
            THEN /\ print_start_extrusion' = total_extrusion.v
                 /\ tracking_active' = TRUE
                 /\ current_print_spool' = active_spool
            ELSE UNCHANGED <<print_start_extrusion, tracking_active,
                             current_print_spool>>

\* extruded_length with int() in place of round()
extruded_length_truncated(final, baseline) == (final - baseline) \div 2

\* extruded_length = round(final_extrusion - self._print_start_extrusion)
extruded_length(final, baseline) == round(final - baseline)

\* apply_print_end without the call that stores the last-print length
apply_print_end_without_last_print(n, extruded, err) ==
    LET new_used == used_length[n] + extruded
    IN  IF ~number_in_range(new_used)
        THEN /\ err = "ServiceValidationError"
             /\ UNCHANGED <<usage, print_start_extrusion, coord_active_spool>>
        ELSE /\ used_length' = [used_length EXCEPT ![n] = new_used]
             /\ IF ~number_in_range(extruded)
                THEN /\ err = "ServiceValidationError"
                     /\ UNCHANGED <<last_print_length, history,
                                    print_start_extrusion, coord_active_spool>>
                ELSE /\ err = "none"
                     /\ UNCHANGED last_print_length
                     /\ history' = append_print_history(n, name[n], extruded)
                     /\ print_start_extrusion' = 0
                     /\ coord_active_spool' = NoState

\* _handle_print_end, from "Update spool usage" on, for the session's spool n.
\* A rejected number.set_value raises out of the handler: nothing after it
\* runs, the reset of the tracking state included.
apply_print_end(n, extruded, err) ==
    LET new_used == used_length[n] + extruded
    IN  IF ~number_in_range(new_used)
        THEN /\ err = "ServiceValidationError"
             /\ UNCHANGED <<usage, print_start_extrusion, coord_active_spool>>
        ELSE /\ used_length' = [used_length EXCEPT ![n] = new_used]
             /\ IF ~number_in_range(extruded)
                THEN /\ err = "ServiceValidationError"
                     /\ UNCHANGED <<last_print_length, history,
                                    print_start_extrusion, coord_active_spool>>
                ELSE /\ err = "none"
                     /\ last_print_length' = [last_print_length EXCEPT ![n] = extruded]
                     /\ history' = append_print_history(n, name[n], extruded)
                     /\ print_start_extrusion' = 0
                     /\ coord_active_spool' = NoState

\* _handle_print_end; the clock ticks once for every print end of a tracked print
handle_print_end(err) ==
    IF ~tracking_active
    THEN /\ err = "none"
         /\ ended_print' = NoPrint
         /\ UNCHANGED <<coordinator, usage, clock>>
    ELSE /\ tracking_active' = FALSE
         /\ clock' = clock + 1
         /\ IF ~total_extrusion.ok
            THEN /\ err = "none"
                 /\ ended_print' = NoPrint
                 /\ UNCHANGED <<print_start_extrusion, coord_active_spool, usage>>
            ELSE IF coord_active_spool \notin {NoState, "None"}
            THEN LET n == SpoolNumOf(coord_active_spool)
                     extruded == extruded_length(total_extrusion.v,
                                                 print_start_extrusion)
                 IN  /\ apply_print_end(n, extruded, err)
                     /\ ended_print' = [spool |-> n, used |-> used_length[n],
                                        extruded |-> extruded]
            ELSE /\ err = "none"
                 /\ print_start_extrusion' = 0
                 /\ coord_active_spool' = NoState
                 /\ ended_print' = NoPrint
                 /\ UNCHANGED usage

\* _handle_print_start gets past its three checks: the tracking switch is on,
\* a spool is selected and the extrusion reading is available
start_is_tracked == enable_spool_tracking /\ active_spool # "None" /\ total_extrusion.ok

\* _handle_printer_status_change with the task it creates, for the event
\* that takes the status entity from its state to new.
handle_printer_status_change(new) ==
    /\ new # printer_status
    /\ printer_status' = new
    /\ \E err \in {"none", "ServiceValidationError"} :
        /\ lastOp' = Op("status_change", 0, 0, err)
        /\ IF new = NoState \/ printer_status = NoState
           THEN /\ err = "none"
                /\ ended_print' = NoPrint
                /\ UNCHANGED <<coordinator, usage, tasks, calc, clock, start_tracked,
                               current_print_spool>>
           ELSE IF IsPrinting(new) /\ ~IsPrinting(printer_status)
           THEN /\ err = "none"
                /\ handle_print_start
                /\ start_tracked' = start_is_tracked
                /\ ended_print' = NoPrint
                /\ UNCHANGED <<usage, tasks, calc, clock>>
           ELSE IF IsPrinting(printer_status) /\ ~IsPrinting(new)
           THEN /\ handle_print_end(err)
                /\ UNCHANGED <<current_print_spool, tasks, calc, start_tracked>>
           ELSE /\ err = "none"
                /\ ended_print' = NoPrint
                /\ UNCHANGED <<coordinator, usage, tasks, calc, clock, start_tracked,
                               current_print_spool>>
    /\ UNCHANGED <<total_extrusion, enable_spool_tracking, active_spool,
                   filament_diameter, config>>
    /\ UNCHANGED instances
    /\ SpoolStateSensor_handle_state_change

\* _handle_print_end up to its first await: the task created for the status
\* change runs until it suspends in the number.set_value call for the used
\* length, or returns before it.
handle_print_end_until_await ==
    IF ~tracking_active
    THEN /\ ended_print' = NoPrint
         /\ UNCHANGED <<coordinator, tasks, clock>>
    ELSE /\ tracking_active' = FALSE
         /\ clock' = clock + 1
         /\ IF ~total_extrusion.ok
            THEN /\ ended_print' = NoPrint
                 /\ UNCHANGED <<print_start_extrusion, coord_active_spool, tasks>>
            ELSE IF coord_active_spool \notin {NoState, "None"}
            THEN /\ ended_print' =
                       LET n == SpoolNumOf(coord_active_spool)
                       IN  [spool |-> n, used |-> used_length[n],
                            extruded |-> extruded_length(total_extrusion.v,
                                                         print_start_extrusion)]
                 /\ end_task' =
                       LET n == SpoolNumOf(coord_active_spool)
                           extruded == extruded_length(total_extrusion.v,
                                                       print_start_extrusion)
                       IN  [pc |-> "used", spool |-> n, extruded |-> extruded,
                            new_used |-> used_length[n] + extruded]
                 /\ UNCHANGED <<print_start_extrusion, coord_active_spool>>
            ELSE /\ print_start_extrusion' = 0
                 /\ coord_active_spool' = NoState
                 /\ ended_print' = NoPrint
                 /\ UNCHANGED tasks

\* _handle_print_end from one await to the next: the suspended task performs
\* the service call it waits for and runs on to its next await, or to its
\* end, where it resets the tracking state.  A rejected number.set_value
\* raises out of the task.
handle_print_end_resume ==
    LET n == end_task.spool
        extruded == end_task.extruded
        new_used == end_task.new_used
    IN  /\ end_task # NoTask
        /\ UNCHANGED <<printer, globals, config, tracking_active, calc, ghost>>
        /\ CASE end_task.pc = "used" ->
                  /\ UNCHANGED <<last_print_length, history, print_start_extrusion,
                                 coord_active_spool>>
                  /\ IF number_in_range(new_used)
                     THEN /\ used_length' = [used_length EXCEPT ![n] = new_used]
                          /\ end_task' = [end_task EXCEPT !.pc = "last_print"]
                          /\ lastOp' = Op("resume", n, 0, "none")
                     ELSE /\ end_task' = NoTask
                          /\ lastOp' = Op("resume", n, 0, "ServiceValidationError")
                          /\ UNCHANGED used_length
             [] end_task.pc = "last_print" ->
                  /\ UNCHANGED <<used_length, history, print_start_extrusion,
                                 coord_active_spool>>
                  /\ IF number_in_range(extruded)
                     THEN /\ last_print_length' =
                                [last_print_length EXCEPT ![n] = extruded]
                          /\ end_task' = [end_task EXCEPT !.pc = "history"]
                          /\ lastOp' = Op("resume", n, 0, "none")
                     ELSE /\ end_task' = NoTask
                          /\ lastOp' = Op("resume", n, 0, "ServiceValidationError")
                          /\ UNCHANGED last_print_length
             [] OTHER ->
                  /\ history' = append_print_history(n, name[n], extruded)
                  /\ print_start_extrusion' = 0
                  /\ coord_active_spool' = NoState
                  /\ end_task' = NoTask
                  /\ lastOp' = Op("resume", n, 0, "none")
                  /\ UNCHANGED <<used_length, last_print_length>>
        /\ UNCHANGED instances
        /\ SpoolStateSensor_handle_state_change

\* _handle_printer_status_change with the tasks it creates run up to their
\* first await; at most one _handle_print_end task is suspended at a time.
handle_printer_status_change_task(new) ==
    /\ new # printer_status
    /\ printer_status' = new
    /\ lastOp' = Op("status_change", 0, 0, "none")
    /\ IF new = NoState \/ printer_status = NoState
       THEN /\ ended_print' = NoPrint
            /\ UNCHANGED <<coordinator, tasks, clock, start_tracked,
                           current_print_spool>>
       ELSE IF IsPrinting(new) /\ ~IsPrinting(printer_status)
       THEN /\ handle_print_start
            /\ start_tracked' = start_is_tracked
            /\ ended_print' = NoPrint
            /\ UNCHANGED <<tasks, clock>>
       ELSE IF IsPrinting(printer_status) /\ ~IsPrinting(new)
       THEN /\ tracking_active => end_task = NoTask
            /\ handle_print_end_until_await
            /\ UNCHANGED <<current_print_spool, start_tracked>>
       ELSE /\ ended_print' = NoPrint
            /\ UNCHANGED <<coordinator, tasks, clock, start_tracked,
                           current_print_spool>>
    /\ UNCHANGED <<total_extrusion, enable_spool_tracking, active_spool,
                   filament_diameter, config, usage, calc>>
    /\ UNCHANGED instances
    /\ SpoolStateSensor_handle_state_change

\* _handle_extrusion_change: the task it creates, _update_spool_usage, only logs.
handle_extrusion_change(new) ==
    /\ new # total_extrusion
    /\ total_extrusion' = new
    /\ lastOp' = Op("event", 0, 0, "none")
    /\ UNCHANGED <<printer_status, globals, config, usage, coordinator, tasks, calc, ghost>>
    /\ UNCHANGED instances
    /\ SpoolStateSensor_handle_state_change

\* SpoolTrackingSwitch.async_turn_on / async_turn_off, and the coordinator's
\* _handle_tracking_toggle, which only logs.
SpoolTrackingSwitch_turn(on) ==
    /\ enable_spool_tracking' = on
    /\ lastOp' = Op("event", 0, 0, "none")
    /\ UNCHANGED <<printer, active_spool, current_print_spool, filament_diameter,
                   config, usage, coordinator, tasks, calc, ghost>>
    /\ UNCHANGED instances
    /\ SpoolStateSensor_handle_state_change

\* ActiveSpoolSelect.async_select_option, and _handle_active_spool_change
\* of every coordinator that listens, for the state change it writes.
ActiveSpoolSelect_select_option(option) ==
    /\ active_spool' = option
    /\ coord_active_spool' = IF option # active_spool THEN option ELSE coord_active_spool
    /\ stale' = [i \in DOMAIN stale |->
                    IF option # active_spool
                    THEN [stale[i] EXCEPT !.active_spool = option]
                    ELSE stale[i]]
    /\ lastOp' = Op("event", 0, 0, "none")
    /\ UNCHANGED <<printer, enable_spool_tracking, current_print_spool,
                   filament_diameter, config, usage, tracking_active,
                   print_start_extrusion, tasks, calc, ghost>>
    /\ SpoolStateSensor_handle_state_change

\* ------------------------------------------------- reload of the config entry

\* The coordinator of the current setup as a record
this_coordinator ==
    [tracking_active |-> tracking_active,
     print_start_extrusion |-> print_start_extrusion,
     active_spool |-> coord_active_spool]

\* CentauriSpoolCoordinator.__init__
new_coordinator ==
    [tracking_active |-> FALSE, print_start_extrusion |-> 0, active_spool |-> NoState]

\* Every coordinator whose listeners are registered, in the order of their
\* registration
listening == Append(stale, this_coordinator)

\* async_unload_entry: platforms are unloaded, hass.data is popped and the
\* services are removed; the listeners that _setup_listeners registered were
\* never kept and stay registered.
unload_entry(coordinators) == coordinators

\* async_reload_entry: unload, then set up again.  The new coordinator is
\* created before the platforms; the entities restore their last states,
\* and the state the active-spool select writes when it is added reaches
\* _handle_active_spool_change of every coordinator that listens.
async_reload_entry ==
    /\ stale' = [i \in DOMAIN unload_entry(listening) |->
                    [unload_entry(listening)[i] EXCEPT !.active_spool = active_spool]]
    /\ tracking_active' = new_coordinator.tracking_active
    /\ print_start_extrusion' = new_coordinator.print_start_extrusion
    /\ coord_active_spool' = active_spool
    /\ lastOp' = Op("reload", 0, 0, "none")
    /\ UNCHANGED <<printer, globals, config, usage, tasks, calc, ghost>>
    /\ SpoolStateSensor_handle_state_change

\* _handle_print_start of coordinator c
coordinator_print_start(c) ==
    IF ~enable_spool_tracking \/ active_spool = "None"
    THEN c
    ELSE IF total_extrusion.ok
    THEN [tracking_active |-> TRUE,
          print_start_extrusion |-> total_extrusion.v,
          active_spool |-> active_spool]
    ELSE [c EXCEPT !.active_spool = active_spool]

\* What a print end can change outside the coordinator: the spools' usage,
\* the time, and (for the record) how many history appends and rejected
\* service calls there were
usage_record ==
    [used_length |-> used_length, last_print_length |-> last_print_length,
     history |-> history, clock |-> clock, ended_print |-> NoPrint,
     appends |-> 0, errors |-> 0]

\* _append_print_history on the history h: the entity's state is decoded,
\* the entry appended, the list cut and written back
history_after_append(h, n, entry) ==
    LET data == json_loads(json_dumps(
                    appended_entries(decode_payload(JNum(Len(h[n]))), entry)))
    IN  IF isinstance_list(data) THEN [h EXCEPT ![n] = data.items] ELSE h

\* _handle_print_end of coordinator c on the usage w: the coordinator and
\* the usage afterwards.  A rejected number.set_value ends the task there.
coordinator_print_end(c, w) ==
    IF ~c.tracking_active
    THEN [c |-> c, w |-> w]
    ELSE LET c1 == [c EXCEPT !.tracking_active = FALSE]
             w1 == [w EXCEPT !.clock = @ + 1]
             reset == [c1 EXCEPT !.print_start_extrusion = 0,
                                 !.active_spool = NoState]
         IN  IF ~total_extrusion.ok
             THEN [c |-> c1, w |-> w1]
             ELSE IF c.active_spool \in {NoState, "None"}
             THEN [c |-> reset, w |-> w1]
             ELSE LET n == SpoolNumOf(c.active_spool)
                      extruded == extruded_length(total_extrusion.v,
                                                  c.print_start_extrusion)
                      new_used == w.used_length[n] + extruded
                      w0 == [w1 EXCEPT !.ended_print =
                                [spool |-> n, used |-> w.used_length[n],
                                 extruded |-> extruded]]
                      w2 == [w0 EXCEPT !.used_length[n] = new_used]
                      entry == [t |-> "dict", date |-> w1.clock, spool |-> name[n],
                                file |-> "Unknown", length_mm |-> extruded,
                                weight_g |-> weight_g(extruded, density[n],
                                                      filament_diameter)]
                  IN  IF ~number_in_range(new_used)
                      THEN [c |-> c1, w |-> [w0 EXCEPT !.errors = @ + 1]]
                      ELSE IF ~number_in_range(extruded)
                      THEN [c |-> c1, w |-> [w2 EXCEPT !.errors = @ + 1]]
                      ELSE [c |-> reset,
                            w |-> [w2 EXCEPT
                                     !.last_print_length[n] = extruded,
                                     !.history = history_after_append(@, n, entry),
                                     !.appends = @ + 1]]

\* The _handle_print_end tasks of the coordinators cs[i..], run one after
\* the other in the order their listeners were registered
RECURSIVE print_end_tasks(_, _, _)
print_end_tasks(cs, i, w) ==
    IF i > Len(cs)
    THEN [cs |-> cs, w |-> w]
    ELSE LET r == coordinator_print_end(cs[i], w)
         IN  print_end_tasks([cs EXCEPT ![i] = r.c], i + 1, r.w)

\* The event that takes the status entity from its state to new, with
\* _handle_printer_status_change of every coordinator that listens and the
\* tasks they create.
handle_printer_status_change_all(new) ==
    /\ new # printer_status
    /\ printer_status' = new
    /\ LET started == [i \in DOMAIN listening |-> coordinator_print_start(listening[i])]
           ended == print_end_tasks(listening, 1, usage_record)
           after ==
               IF new = NoState \/ printer_status = NoState
               THEN [cs |-> listening, w |-> usage_record]
               ELSE IF IsPrinting(new) /\ ~IsPrinting(printer_status)
               THEN [cs |-> started, w |-> usage_record]
               ELSE IF IsPrinting(printer_status) /\ ~IsPrinting(new)
               THEN ended
               ELSE [cs |-> listening, w |-> usage_record]
           this == after.cs[Len(after.cs)]
       IN  /\ stale' = SubSeq(after.cs, 1, Len(after.cs) - 1)
           /\ tracking_active' = this.tracking_active
           /\ print_start_extrusion' = this.print_start_extrusion
           /\ coord_active_spool' = this.active_spool
           /\ used_length' = after.w.used_length
           /\ last_print_length' = after.w.last_print_length
           /\ history' = after.w.history
           /\ clock' = after.w.clock
           /\ ended_print' = after.w.ended_print
           /\ start_tracked' =
                 IF /\ new # NoState /\ printer_status # NoState
                    /\ IsPrinting(new) /\ ~IsPrinting(printer_status)
                 THEN start_is_tracked
                 ELSE start_tracked
           /\ current_print_spool' =
                 IF /\ new # NoState /\ printer_status # NoState
                    /\ IsPrinting(new) /\ ~IsPrinting(printer_status)
                    /\ enable_spool_tracking /\ active_spool # "None"
                    /\ total_extrusion.ok
                 THEN active_spool
                 ELSE current_print_spool
           /\ lastOp' = Op("status_change", 0, after.w.appends,
                           IF after.w.errors > 0 THEN "ServiceValidationError"
                           ELSE "none")
    /\ UNCHANGED <<total_extrusion, enable_spool_tracking, active_spool,
                   filament_diameter, config, tasks, calc>>
    /\ SpoolStateSensor_handle_state_change

\* ---------------------------------------------------------------- services

\* length_mm = weight_grams * 1000 / (density * pi * (diameter / 2)^2), rounded
length_from_weight(weight_grams, density100, diameter100) ==
    LET a == PiKTimes10(density100, diameter100) \div 1000
    IN  weight_grams * (40000000 \div a)
            + round_div(weight_grams * (40000000 % a), a)

\* handle_reset_spool
handle_reset_spool(n) ==
    /\ used_length' = [used_length EXCEPT ![n] = 0]
    /\ last_print_length' = [last_print_length EXCEPT ![n] = 0]
    /\ lastOp' = Op("reset_spool", n, 0, "none")
    /\ UNCHANGED <<printer, globals, config, history, coordinator, tasks, calc, ghost>>
    /\ UNCHANGED instances
    /\ SpoolStateSensor_handle_state_change

\* new_used = round(max(0, current_used - length))
undone_used(current_used, length) == max0(current_used - length)

\* handle_undo_last_print without the reset of the last-print length
handle_undo_last_print_keeping_length(n) ==
    /\ used_length' = [used_length EXCEPT
                         ![n] = IF used_length[n] > last_print_length[n]
                                THEN used_length[n] - last_print_length[n] ELSE 0]
    /\ lastOp' = Op("undo_last_print", n, 0, "none")
    /\ UNCHANGED <<printer, globals, config, last_print_length, history,
                   coordinator, tasks, calc, ghost>>
    /\ UNCHANGED instances
    /\ SpoolStateSensor_handle_state_change

\* handle_undo_last_print
handle_undo_last_print(n) ==
    /\ used_length' = [used_length EXCEPT
                         ![n] = undone_used(used_length[n], last_print_length[n])]
    /\ last_print_length' = [last_print_length EXCEPT ![n] = 0]
    /\ lastOp' = Op("undo_last_print", n, 0, "none")
    /\ UNCHANGED <<printer, globals, config, history, coordinator, tasks, calc, ghost>>
    /\ UNCHANGED instances
    /\ SpoolStateSensor_handle_state_change

\* handle_mark_spool_empty clearing the last-print length as reset_spool does
handle_mark_spool_empty_clearing_last_print(n) ==
    /\ used_length' = [used_length EXCEPT ![n] = initial_length[n]]
    /\ last_print_length' = [last_print_length EXCEPT ![n] = 0]
    /\ lastOp' = Op("mark_spool_empty", n, 0, "none")
    /\ UNCHANGED <<printer, globals, config, history, coordinator, tasks, calc, ghost>>
    /\ UNCHANGED instances
    /\ SpoolStateSensor_handle_state_change

\* handle_mark_spool_empty
handle_mark_spool_empty(n) ==
    /\ used_length' = [used_length EXCEPT ![n] = initial_length[n]]
    /\ lastOp' = Op("mark_spool_empty", n, 0, "none")
    /\ UNCHANGED <<printer, globals, config, last_print_length, history,
                   coordinator, tasks, calc, ghost>>
    /\ UNCHANGED instances
    /\ SpoolStateSensor_handle_state_change

\* entries.pop(entry_index), entry_index zero-based
without_index(entries, entry_index) ==
    [k \in 1..(Len(entries) - 1) |->
        IF k <= entry_index THEN entries[k] ELSE entries[k + 1]]

\* handle_undo_history_entry: the entries are decoded from the state of the
\* history entity; entry.get(...) on an entry that is not a dict raises
\* AttributeError out of the handler.
handle_undo_history_entry(n, entry_index) ==
    LET entries == ensure_list(json_loads(SpoolHistoryText_state(n)))
    IN  /\ UNCHANGED <<printer, globals, config, last_print_length, coordinator, tasks, calc, ghost>>
        /\ IF entries = <<>> \/ entry_index >= Len(entries)
           THEN /\ lastOp' = Op("undo_history_entry", n, entry_index, "none")
                /\ UNCHANGED <<used_length, history>>
           ELSE LET entry == entries[entry_index + 1]
                IN  IF ~isinstance_dict(entry)
                    THEN /\ lastOp' = Op("undo_history_entry", n, entry_index,
                                         "AttributeError")
                         /\ UNCHANGED <<used_length, history>>
                    ELSE /\ lastOp' = Op("undo_history_entry", n, entry_index, "none")
                         /\ used_length' = [used_length EXCEPT
                               ![n] = undone_used(used_length[n], entry.length_mm)]
                         /\ history' = SpoolHistoryText_async_set_value(n,
                               json_dumps(without_index(entries, entry_index)))
        /\ UNCHANGED instances
        /\ SpoolStateSensor_handle_state_change

\* handle_set_spool_weight: the initial length computed from the weight, then
\* the used length reset; a length the initial-length entity rejects raises
\* before the reset.
handle_set_spool_weight(n, weight_grams) ==
    LET length_mm == length_from_weight(weight_grams, density[n], filament_diameter)
    IN  /\ IF number_in_range(length_mm)
           THEN /\ initial_length' = [initial_length EXCEPT ![n] = length_mm]
                /\ used_length' = [used_length EXCEPT ![n] = 0]
                /\ lastOp' = Op("set_spool_weight", n, weight_grams, "none")
           ELSE /\ lastOp' = Op("set_spool_weight", n, weight_grams,
                                "ServiceValidationError")
                /\ UNCHANGED <<initial_length, used_length>>
        /\ UNCHANGED <<printer, globals, name, material, density, set_weight, lock,
                       last_print_length, history, coordinator, tasks, calc, ghost>>
        /\ UNCHANGED instances
        /\ SpoolStateSensor_handle_state_change

\* ----------------------------------------------------------- entity setters

MATERIAL_TYPES == {"Custom", "PLA", "PETG", "ABS", "TPU", "Nylon", "ASA"}

MATERIAL_DENSITIES(option) ==
    CASE option = "PETG" -> 127
      [] option = "ABS" -> 104
      [] option = "TPU" -> 121
      [] option = "Nylon" -> 114
      [] option = "ASA" -> 105
      [] OTHER -> 124

\* SpoolLockSwitch.async_turn_on / async_turn_off
SpoolLockSwitch_turn(n, on) ==
    /\ lock' = [lock EXCEPT ![n] = on]
    /\ lastOp' = Op("lock", n, 0, "none")
    /\ UNCHANGED <<printer, globals, name, material, density, initial_length,
                   set_weight, usage, coordinator, tasks, calc, ghost>>
    /\ UNCHANGED instances
    /\ SpoolStateSensor_handle_state_change

\* SpoolNameText.async_set_value without the lock check
SpoolNameText_async_set_value_unguarded(n, value) ==
    /\ name' = [name EXCEPT ![n] = value]
    /\ lastOp' = Op("set_name", n, 0, "none")
    /\ UNCHANGED <<printer, globals, material, density, initial_length, set_weight,
                   lock, usage, coordinator, tasks, calc, ghost>>
    /\ UNCHANGED instances
    /\ SpoolStateSensor_handle_state_change

\* SpoolNameText.async_set_value
SpoolNameText_async_set_value(n, value) ==
    /\ IF lock[n]
       THEN /\ lastOp' = Op("set_name", n, 0, "ValueError")
            /\ UNCHANGED name
       ELSE /\ lastOp' = Op("set_name", n, 0, "none")
            /\ name' = [name EXCEPT ![n] = value]
    /\ UNCHANGED <<printer, globals, material, density, initial_length, set_weight,
                   lock, usage, coordinator, tasks, calc, ghost>>
    /\ UNCHANGED instances
    /\ SpoolStateSensor_handle_state_change

\* SpoolMaterialSelect.async_select_option, called by select.select_option,
\* which rejects an option that is not one of the entity's options
SpoolMaterialSelect_async_select_option(n, option) ==
    /\ IF option \notin MATERIAL_TYPES
       THEN /\ lastOp' = Op("select_material", n, 0, "ServiceValidationError")
            /\ UNCHANGED <<material, density>>
       ELSE IF lock[n]
       THEN /\ lastOp' = Op("select_material", n, 0, "ValueError")
            /\ UNCHANGED <<material, density>>
       ELSE /\ lastOp' = Op("select_material", n, 0, "none")
            /\ material' = [material EXCEPT ![n] = option]
            /\ density' = [density EXCEPT ![n] = MATERIAL_DENSITIES(option)]
    /\ UNCHANGED <<printer, globals, name, initial_length, set_weight, lock, usage,
                   coordinator, tasks, calc, ghost>>
    /\ UNCHANGED instances
    /\ SpoolStateSensor_handle_state_change

\* SpoolSetWeightNumber.async_set_native_value: the lock check, the value
\* stored, then the set_spool_weight service
SpoolSetWeightNumber_async_set_native_value(n, value) ==
    LET length_mm == length_from_weight(value, density[n], filament_diameter)
    IN  /\ IF lock[n]
           THEN /\ lastOp' = Op("set_weight_number", n, value, "ValueError")
                /\ UNCHANGED <<set_weight, initial_length, used_length>>
           ELSE /\ set_weight' = [set_weight EXCEPT ![n] = value]
                /\ IF number_in_range(length_mm)
                   THEN /\ lastOp' = Op("set_weight_number", n, value, "none")
                        /\ initial_length' = [initial_length EXCEPT ![n] = length_mm]
                        /\ used_length' = [used_length EXCEPT ![n] = 0]
                   ELSE /\ lastOp' = Op("set_weight_number", n, value,
                                        "ServiceValidationError")
                        /\ UNCHANGED <<initial_length, used_length>>
        /\ UNCHANGED <<printer, globals, name, material, density, lock,
                       last_print_length, history, coordinator, tasks, calc, ghost>>
        /\ UNCHANGED instances
        /\ SpoolStateSensor_handle_state_change

\* SpoolInitialLengthNumber.async_set_native_value, called by number.set_value
SpoolInitialLengthNumber_async_set_native_value(n, value) ==
    /\ IF number_in_range(value)
       THEN /\ lastOp' = Op("set_initial_length", n, value, "none")
            /\ initial_length' = [initial_length EXCEPT ![n] = value]
       ELSE /\ lastOp' = Op("set_initial_length", n, value, "ServiceValidationError")
            /\ UNCHANGED initial_length
    /\ UNCHANGED <<printer, globals, name, material, density, set_weight, lock,
                   usage, coordinator, tasks, calc, ghost>>
    /\ UNCHANGED instances
    /\ SpoolStateSensor_handle_state_change

\* handle_setup_spool with the unlock of step 1 before the check of the state
handle_setup_spool_unlock_first(n, new_name, new_material, weight_grams, auto_lock) ==
    LET length_mm == length_from_weight(weight_grams, MATERIAL_DENSITIES(new_material),
                                        filament_diameter)
    IN  /\ UNCHANGED <<printer, globals, set_weight, last_print_length, history,
                       coordinator, tasks, calc, ghost>>
        /\ IF state_sensor[n] \notin {"ready", "empty"}
           THEN /\ lastOp' = Op("setup_spool", n, weight_grams, "ValueError")
                /\ lock' = [lock EXCEPT ![n] = FALSE]
                /\ UNCHANGED <<name, material, density, initial_length, used_length>>
           ELSE /\ name' = [name EXCEPT ![n] = new_name]
                /\ IF new_material \notin MATERIAL_TYPES
                   THEN /\ lastOp' = Op("setup_spool", n, weight_grams,
                                        "ServiceValidationError")
                        /\ lock' = [lock EXCEPT ![n] = FALSE]
                        /\ UNCHANGED <<material, density, initial_length, used_length>>
                   ELSE /\ material' = [material EXCEPT ![n] = new_material]
                        /\ density' = [density EXCEPT
                                         ![n] = MATERIAL_DENSITIES(new_material)]
                        /\ IF ~number_in_range(length_mm)
                           THEN /\ lastOp' = Op("setup_spool", n, weight_grams,
                                                "ServiceValidationError")
                                /\ lock' = [lock EXCEPT ![n] = FALSE]
                                /\ UNCHANGED <<initial_length, used_length>>
                           ELSE /\ lastOp' = Op("setup_spool", n, weight_grams, "none")
                                /\ initial_length' = [initial_length EXCEPT ![n] = length_mm]
                                /\ used_length' = [used_length EXCEPT ![n] = 0]
                                /\ lock' = [lock EXCEPT ![n] = auto_lock]
        /\ UNCHANGED instances
        /\ SpoolStateSensor_handle_state_change

\* handle_setup_spool computing the length with the density the spool had
\* before the call
handle_setup_spool_old_density(n, new_name, new_material, weight_grams, auto_lock) ==
    LET length_mm == length_from_weight(weight_grams, density[n], filament_diameter)
    IN  /\ UNCHANGED <<printer, globals, set_weight, last_print_length, history,
                       coordinator, tasks, calc, ghost>>
        /\ IF state_sensor[n] \notin {"ready", "empty"}
           THEN /\ lastOp' = Op("setup_spool", n, weight_grams, "ValueError")
                /\ UNCHANGED <<name, material, density, initial_length, lock, used_length>>
           ELSE /\ name' = [name EXCEPT ![n] = new_name]
                /\ IF new_material \notin MATERIAL_TYPES
                   THEN /\ lastOp' = Op("setup_spool", n, weight_grams,
                                        "ServiceValidationError")
                        /\ lock' = [lock EXCEPT ![n] = FALSE]
                        /\ UNCHANGED <<material, density, initial_length, used_length>>
                   ELSE /\ material' = [material EXCEPT ![n] = new_material]
                        /\ density' = [density EXCEPT
                                         ![n] = MATERIAL_DENSITIES(new_material)]
                        /\ IF ~number_in_range(length_mm)
                           THEN /\ lastOp' = Op("setup_spool", n, weight_grams,
                                                "ServiceValidationError")
                                /\ lock' = [lock EXCEPT ![n] = FALSE]
                                /\ UNCHANGED <<initial_length, used_length>>
                           ELSE /\ lastOp' = Op("setup_spool", n, weight_grams, "none")
                                /\ initial_length' = [initial_length EXCEPT ![n] = length_mm]
                                /\ used_length' = [used_length EXCEPT ![n] = 0]
                                /\ lock' = [lock EXCEPT ![n] = auto_lock]
        /\ UNCHANGED instances
        /\ SpoolStateSensor_handle_state_change

\* handle_setup_spool: the state check, then unlock, name, material (with its
\* density), weight (initial length, used length reset) and lock, each a
\* service call; one that raises leaves the earlier steps done.
handle_setup_spool(n, new_name, new_material, weight_grams, auto_lock) ==
    LET length_mm == length_from_weight(weight_grams, MATERIAL_DENSITIES(new_material),
                                        filament_diameter)
    IN  /\ UNCHANGED <<printer, globals, set_weight, last_print_length, history,
                       coordinator, tasks, calc, ghost>>
        /\ IF state_sensor[n] \notin {"ready", "empty"}
           THEN /\ lastOp' = Op("setup_spool", n, weight_grams, "ValueError")
                /\ UNCHANGED <<name, material, density, initial_length, lock, used_length>>
           ELSE /\ name' = [name EXCEPT ![n] = new_name]
                /\ IF new_material \notin MATERIAL_TYPES
                   THEN /\ lastOp' = Op("setup_spool", n, weight_grams,
                                        "ServiceValidationError")
                        /\ lock' = [lock EXCEPT ![n] = FALSE]
                        /\ UNCHANGED <<material, density, initial_length, used_length>>
                   ELSE /\ material' = [material EXCEPT ![n] = new_material]
                        /\ density' = [density EXCEPT
                                         ![n] = MATERIAL_DENSITIES(new_material)]
                        /\ IF ~number_in_range(length_mm)
                           THEN /\ lastOp' = Op("setup_spool", n, weight_grams,
                                                "ServiceValidationError")
                                /\ lock' = [lock EXCEPT ![n] = FALSE]
                                /\ UNCHANGED <<initial_length, used_length>>
                           ELSE /\ lastOp' = Op("setup_spool", n, weight_grams, "none")
                                /\ initial_length' = [initial_length EXCEPT ![n] = length_mm]
                                /\ used_length' = [used_length EXCEPT ![n] = 0]
                                /\ lock' = [lock EXCEPT ![n] = auto_lock]
        /\ UNCHANGED instances
        /\ SpoolStateSensor_handle_state_change

\* ---------------------------------------------------------- specifications

\* The tracker: printer events, the tracking switch, the active-spool selector.
Next ==
    \/ \E new \in Statuses \cup {NoState} :
        clock < MaxPrints /\ handle_printer_status_change(new)
    \/ \E new \in Readings : handle_extrusion_change(new)
    \/ \E on \in BOOLEAN : SpoolTrackingSwitch_turn(on)
    \/ \E option \in ActiveSpoolOptions : ActiveSpoolSelect_select_option(option)

Spec == Init /\ [][Next]_vars

\* The services on top of a tracker that prints: the printer alternates between
\* idle and printing, tracking is switched on, a spool is selected.
NextServices ==
    \/ \E new \in {"idle", "printing"} :
        clock < MaxServicePrints /\ handle_printer_status_change(new)
    \/ \E new \in {Reading(0), Reading(MaxReading)} : handle_extrusion_change(new)
    \/ SpoolTrackingSwitch_turn(TRUE)
    \/ \E n \in Spools : ActiveSpoolSelect_select_option(SpoolOption(n))
    \/ \E n \in Spools : handle_reset_spool(n)
    \/ \E n \in Spools : handle_undo_last_print(n)
    \/ \E n \in Spools : handle_mark_spool_empty(n)
    \/ \E n \in Spools, entry_index \in 0..MaxIndex :
        handle_undo_history_entry(n, entry_index)
    \/ \E n \in Spools, weight_grams \in 0..MaxWeight :
        handle_set_spool_weight(n, weight_grams)

SpecServices == Init /\ [][NextServices]_vars

\* The tracker with the print-end handler suspending at its service calls.
NextTasks ==
    \/ \E new \in {"idle", "printing"} :
        clock < MaxTaskPrints /\ handle_printer_status_change_task(new)
    \/ handle_print_end_resume
    \/ \E new \in {Reading(0), Reading(3), Reading(MaxReading)} :
        handle_extrusion_change(new)
    \/ SpoolTrackingSwitch_turn(TRUE)
    \/ \E n \in Spools : ActiveSpoolSelect_select_option(SpoolOption(n))

SpecTasks == Init /\ [][NextTasks]_vars

\* The tracker with reloads of the config entry: every coordinator that
\* still listens reacts to the printer and to the active-spool select.
NextReload ==
    \/ \E new \in {"idle", "printing"} :
        clock < MaxReloadPrints /\ handle_printer_status_change_all(new)
    \/ \E new \in {Reading(0), Reading(MaxReading)} : handle_extrusion_change(new)
    \/ \E on \in BOOLEAN : SpoolTrackingSwitch_turn(on)
    \/ \E option \in ActiveSpoolOptions : ActiveSpoolSelect_select_option(option)
    \/ Len(stale) < MaxReloads /\ async_reload_entry

SpecReload == Init /\ [][NextReload]_vars

\* The append and the weight formula as functions of their arguments.
PayloadEntry(i) ==
    [t |-> "dict", date |-> 0 - i, spool |-> "Spool 1", file |-> "Unknown",
     length_mm |-> i, weight_g |-> 0]
Payloads ==
    {JInvalid, JNum(0), JNum(1)}
        \cup {JList([i \in 1..k |-> PayloadEntry(i)]) : k \in 0..MaxPayloadLen}
CalcLengths == {0, 1, 500, 1000, 2000}
CalcDiameters == {175, 285}
ExtrusionValues == {0, MaxReading}
PrintInfoObjects ==
    UNION {[keys -> ExtrusionValues] : keys \in SUBSET ExtrusionKeys}

NextCalc ==
    \/ \E payload \in Payloads, length_mm \in 0..MaxReading :
        append_print_history_to(payload, length_mm)
    \/ \E length_mm \in CalcLengths, option \in MATERIAL_TYPES,
          diameter100 \in CalcDiameters :
        weight_of_length(length_mm, MATERIAL_DENSITIES(option), diameter100)
    \/ \E data \in PrintInfoObjects : PrinterStatus_from_json(data)

SpecCalc == Init /\ [][NextCalc]_vars

\* The ledger over many prints: one spool prints again and again, and
\* history entries are undone.
NextLedger ==
    \/ \E new \in {"idle", "printing"} :
        clock < MaxLedgerPrints /\ handle_printer_status_change(new)
    \/ SpoolTrackingSwitch_turn(TRUE)
    \/ ActiveSpoolSelect_select_option(SpoolOption(1))
    \/ \E n \in Spools, entry_index \in 0..MaxIndex :
        handle_undo_history_entry(n, entry_index)

SpecLedger == Init /\ [][NextLedger]_vars

\* The configuration of one spool: its lock, its setters and the services
\* that configure it.
ConfigSpools == {1}
Names == {"Spool 1", "Galaxy Black"}
Materials == {"PLA", "PETG", "Wood"}
InitialLengths == {0, 100}
SpoolWeights == (0..MaxWeight) \cup {1000, 2000}

NextConfig ==
    \/ \E n \in ConfigSpools, on \in BOOLEAN : SpoolLockSwitch_turn(n, on)
    \/ \E n \in ConfigSpools, value \in Names : SpoolNameText_async_set_value(n, value)
    \/ \E n \in ConfigSpools, option \in Materials :
        SpoolMaterialSelect_async_select_option(n, option)
    \/ \E n \in ConfigSpools, value \in 0..MaxWeight :
        SpoolSetWeightNumber_async_set_native_value(n, value)
    \/ \E n \in ConfigSpools, value \in InitialLengths :
        SpoolInitialLengthNumber_async_set_native_value(n, value)
    \/ \E n \in ConfigSpools, weight_grams \in SpoolWeights :
        handle_set_spool_weight(n, weight_grams)
    \/ \E n \in ConfigSpools, new_name \in Names, new_material \in Materials,
          weight_grams \in 0..MaxWeight, auto_lock \in BOOLEAN :
        handle_setup_spool(n, new_name, new_material, weight_grams, auto_lock)
    \/ \E n \in ConfigSpools : handle_reset_spool(n)
    \/ \E n \in ConfigSpools : handle_mark_spool_empty(n)
    \/ \E option \in {"None", SpoolOption(1)} : ActiveSpoolSelect_select_option(option)

SpecConfig == Init /\ [][NextConfig]_vars

\* ------------------------------------------------------------------ claims

\* A step that handles a change of the printer's status from old to new
StatusStep == printer_status' # printer_status

BothStatesPresent == printer_status # NoState /\ printer_status' # NoState

PrintingValues == {"printing", "running", "PRINTING", "RUNNING", "Printing", "Running"}

\* the status goes from a non-printing to a printing value
StartTransition ==
    /\ StatusStep /\ BothStatesPresent
    /\ printer_status \notin PrintingValues
    /\ printer_status' \in PrintingValues

\* the status goes from a printing to a non-printing value
EndTransition ==
    /\ StatusStep /\ BothStatesPresent
    /\ printer_status \in PrintingValues
    /\ printer_status' \notin PrintingValues

\* the end of a tracked print is handled with the final reading available
\* and spool n as the session's spool
TrackedPrintEnd(n) ==
    /\ EndTransition
    /\ tracking_active
    /\ total_extrusion.ok
    /\ coord_active_spool = SpoolOption(n)

\* C1: the tracker goes from idle to tracking exactly on a status change from
\* a non-printing to a printing value with the tracking switch on, an active
\* spool selected and the extrusion reading available; the baseline is then
\* that reading.  With the switch off, no active spool, a change between two
\* printing or two non-printing values, or a missing old/new state, neither
\* the tracking flag nor the baseline changes, and no other operation makes
\* the tracker enter tracking.
C1_StartExactly ==
    [][LET start == /\ StartTransition
                    /\ enable_spool_tracking
                    /\ active_spool # "None"
                    /\ total_extrusion.ok
       IN  /\ (~tracking_active /\ tracking_active') <=> (~tracking_active /\ start)
           /\ start => (tracking_active' /\ print_start_extrusion' = total_extrusion.v)
           /\ (~start /\ ~EndTransition) =>
                 UNCHANGED <<tracking_active, print_start_extrusion>>]_vars

\* C1 witness: a print is being tracked with a non-zero baseline captured
C1_Witness ==
    /\ tracking_active
    /\ printer_status \in PrintingValues
    /\ print_start_extrusion > 0
    /\ print_start_extrusion = total_extrusion.v

\* C2: at the end of a tracked print the length added to the used length,
\* stored as last-print length and recorded in the history entry is
\* max(0, round(final - baseline)), never negative.
C2_ClampedLength ==
    [][\A n \in Spools :
        TrackedPrintEnd(n) =>
            LET length == max0(round(total_extrusion.v - print_start_extrusion))
            IN  /\ used_length'[n] = used_length[n] + length
                /\ used_length'[n] >= used_length[n]
                /\ last_print_length'[n] = length
                /\ history'[n] # history[n] =>
                      history'[n][Len(history'[n])].length_mm = length]_vars

\* C3: for a tracked print with 0 <= baseline <= final, print end adds
\* round(final - baseline) to the used length of the session's spool, which
\* is then not below its value before the print.
C3_AddsDelta ==
    [][\A n \in Spools :
        (/\ TrackedPrintEnd(n)
         /\ 0 <= print_start_extrusion
         /\ print_start_extrusion <= total_extrusion.v) =>
            /\ used_length'[n] =
                  used_length[n] + round(total_extrusion.v - print_start_extrusion)
            /\ used_length'[n] >= used_length[n]]_vars

\* C3 witness: a print that started at a non-zero baseline has ended and
\* left its length on its spool
C3_Witness ==
    \E n \in Spools :
        /\ ~tracking_active
        /\ clock > 0
        /\ lastOp.err = "none"
        /\ printer_status \notin PrintingValues
        /\ last_print_length[n] = round(MaxReading - 3)
        /\ used_length[n] = round(MaxReading) + round(MaxReading - 3)

\* C4: a print completed on a spool leaves that spool's history as the
\* history before it with the new record appended, cut to the 10 most recent
\* records, so that n prints leave the last min(n, 10) records in order.
C4_AppendKeepsRecent ==
    [][\A n \in Spools :
        (TrackedPrintEnd(n) /\ lastOp'.err = "none") =>
            /\ Len(history'[n]) > 0
            /\ history'[n] = LastN(Append(history[n], history'[n][Len(history'[n])]),
                                   HistoryLimit)]_vars

\* A step that is a call of undo_history_entry(n, entry_index)
UndoHistoryEntryCall(n, entry_index) ==
    /\ lastOp'.op = "undo_history_entry"
    /\ lastOp'.spool = n
    /\ lastOp'.val = entry_index

\* C5: undo_history_entry(n, i) with a valid index i (0 <= i < number of
\* recorded prints of spool n) removes exactly entry i, keeps the others in
\* order, and lowers the used length by that entry's length, floored at 0.
C5_UndoRemovesEntry ==
    [][\A n \in Spools, entry_index \in 0..MaxIndex :
        (UndoHistoryEntryCall(n, entry_index) /\ entry_index < Len(history[n])) =>
            /\ history'[n] = without_index(history[n], entry_index)
            /\ used_length'[n] =
                  max0(used_length[n] - history[n][entry_index + 1].length_mm)]_vars

\* C6: undo_history_entry(n, i) with an index past the end of the history,
\* or on an empty history, changes neither the history nor the used length
\* and raises no error.
C6_UndoOutOfRangeSilent ==
    [][\A n \in Spools, entry_index \in 0..MaxIndex :
        (UndoHistoryEntryCall(n, entry_index) /\ entry_index >= Len(history[n])) =>
            /\ history'[n] = history[n]
            /\ used_length'[n] = used_length[n]
            /\ lastOp'.err = "none"]_vars

\* C7: the used length of every spool is never negative, whatever the
\* sequence of prints, undos, resets, mark-empty calls and weight settings.
C7_UsedNeverNegative ==
    \A n \in Spools : used_length[n] >= 0

\* C7 witness: a print end whose reading lies below the baseline has been
\* handled and the spool's used length is still 0.
C7_Witness ==
    /\ lastOp.op = "status_change"
    /\ lastOp.err = "ServiceValidationError"
    /\ total_extrusion # Unavailable
    /\ total_extrusion.v < print_start_extrusion
    /\ \E n \in Spools : coord_active_spool = SpoolOption(n) /\ used_length[n] = 0

\* C8: the history of a spool never holds more than 10 entries.
C8_HistoryBounded ==
    \A n \in Spools : Len(history[n]) <= HistoryLimit

\* C8 witness: more prints than the limit have ended and the last one is in
\* the history.
C8_Witness ==
    /\ clock > HistoryLimit
    /\ \E n \in Spools :
        /\ Len(history[n]) >= 1
        /\ history[n][Len(history[n])].date = clock

\* C9: while the lock of spool n is on, a write through the name text, the
\* material select or the set-weight number of spool n raises an error and
\* leaves the name, material, density, set weight and initial length as
\* they were.
C9_LockedSettersRejected ==
    [][\A n \in Spools :
        (/\ lock[n]
         /\ lastOp'.spool = n
         /\ lastOp'.op \in {"set_name", "select_material", "set_weight_number"}) =>
            /\ lastOp'.err # "none"
            /\ name'[n] = name[n]
            /\ material'[n] = material[n]
            /\ density'[n] = density[n]
            /\ set_weight'[n] = set_weight[n]
            /\ initial_length'[n] = initial_length[n]]_vars

\* C9 witness: a spool configured while unlocked was locked again, and a
\* write to its name was then refused.
C9_Witness ==
    \E n \in Spools :
        /\ lock[n]
        /\ lastOp = Op("set_name", n, 0, "ValueError")
        /\ name[n] = "Galaxy Black"
        /\ material[n] = "PETG"
        /\ initial_length[n] > 0

\* C10: while the lock of spool n is on, no operation on spool n changes its
\* name, its material or its initial length.
C10_LockedConfigFrozen ==
    [][\A n \in Spools :
        (lock[n] /\ lastOp'.spool = n) =>
            /\ name'[n] = name[n]
            /\ material'[n] = material[n]
            /\ initial_length'[n] = initial_length[n]]_vars

\* A step of the suspended print-end task
PrintEndTaskStep == end_task # NoTask /\ end_task' # end_task

\* C11: when the start of a new print has been handled while the end of the
\* previous print is still suspended in its service calls, the steps of
\* that print end leave the new print's baseline and session spool as its
\* start captured them.
C11_NewSessionKept ==
    [][(PrintEndTaskStep /\ tracking_active) =>
          /\ print_start_extrusion' = print_start_extrusion
          /\ coord_active_spool' = coord_active_spool]_vars

C13_SessionDiscarded ==
    [][(EndTransition /\ tracking_active) =>
          /\ ~tracking_active'
          /\ print_start_extrusion' = 0
          /\ coord_active_spool' = NoState]_vars

\* C14: turning the tracking switch off while a print is tracked returns
\* the tracker to idle.
C14_DisableDiscards ==
    [][(tracking_active /\ enable_spool_tracking /\ ~enable_spool_tracking') =>
          ~tracking_active']_vars

\* C15: a call of undo_history_entry never raises.
C15_UndoNeverRaises ==
    [][lastOp'.op = "undo_history_entry" => lastOp'.err = "none"]_vars

\* A step that is a call of undo_last_print(n)
UndoLastPrintCall(n) ==
    lastOp'.op = "undo_last_print" /\ lastOp'.spool = n

\* C18: undo_last_print(n) sets the used length of spool n to
\* max(0, used - last-print length) and the last-print length to 0; a second
\* call right after the first leaves both as the first call left them.
C18_UndoLastIdempotent ==
    [][\A n \in Spools :
        UndoLastPrintCall(n) =>
            /\ used_length'[n] = max0(used_length[n] - last_print_length[n])
            /\ last_print_length'[n] = 0
            /\ (lastOp.op = "undo_last_print" /\ lastOp.spool = n) =>
                  /\ used_length'[n] = used_length[n]
                  /\ last_print_length'[n] = last_print_length[n]]_vars

\* C18 witness: a print of non-zero length on spool n has been undone.
C18_Witness ==
    \E n \in Spools :
        /\ lastOp = Op("undo_last_print", n, 0, "none")
        /\ history[n] # <<>>
        /\ history[n][1].length_mm > 0
        /\ used_length[n] = 0
        /\ last_print_length[n] = 0

\* C16: when the payload read at append time is not valid JSON the stored
\* history afterwards is exactly the new record; when it is a list of k
\* records the stored history is the last min(k + 1, 10) of those records
\* followed by the new one.
C16_AppendDecodes ==
    input.f = "append" =>
        LET entry == new_entry(1, name[1], input.length)
            stored == history[1]
        IN  /\ input.payload = JInvalid => stored = <<entry>>
            /\ input.payload.t = "list" =>
                  LET old == input.payload.items
                      k == Len(old)
                      m == IF k + 1 <= HistoryLimit THEN k + 1 ELSE HistoryLimit
                  IN  /\ Len(stored) = m
                      /\ stored[m] = entry
                      /\ \A i \in 1..(m - 1) : stored[i] = old[k + 1 - m + i]

\* C16 witness: an append has read a payload that is not JSON and stored
\* one record of non-zero length.
C16_Witness ==
    /\ input.f = "append"
    /\ input.payload = JInvalid
    /\ input.length > 0
    /\ Len(history[1]) = 1
    /\ history[1][1].length_mm = input.length

\* the formula has been applied to 1000 mm, 1.75 mm and 1.24 g/cm3
C19_Case ==
    input = [f |-> "weight", length |-> 1000, density |-> DefaultDensity,
             diameter |-> DefaultDiameter]

\* C19 as stated: for 1000 mm of 1.75 mm filament of density 1.24 g/cm3 the
\* weight formula yields 2.366 g to three decimals.
C19_Weight2366 ==
    C19_Case => (output.ug >= 2365500 /\ output.ug <= 2366500)

\* C19 amended: for 1000 mm of 1.75 mm filament of density 1.24 g/cm3 the
\* weight formula yields 2.983 g to three decimals.
C19_Weight2983 ==
    C19_Case => (output.ug >= 2982500 /\ output.ug <= 2983500)

\* C19 witness: the formula has been applied to the claim's arguments.
C19_Witness ==
    C19_Case /\ output.f = "weight" /\ output.ug > 0

\* C20: set_spool_weight(n, w) stores as initial length of spool n the
\* rounded length computed from w, and the weight computed back from the
\* stored length with the same density and diameter differs from w by no
\* more than the weight of half a millimetre of filament.
C20_WeightRoundTrip ==
    [][\A n \in Spools, w \in SpoolWeights :
        (lastOp'.op = "set_spool_weight" /\ lastOp'.spool = n /\ lastOp'.val = w) =>
            LET back == weight_ug(initial_length'[n], density[n], filament_diameter)
                half_mm == weight_ug(1, density[n], filament_diameter) \div 2 + 1
            IN  /\ initial_length'[n] =
                      length_from_weight(w, density[n], filament_diameter)
                /\ back - w * 1000000 <= half_mm
                /\ w * 1000000 - back <= half_mm]_vars

\* C17: the stored state of every spool's state sensor is one of ready,
\* configured, active and empty, and it is the one the current values
\* determine: empty if initial length > 0 and used >= initial; otherwise
\* active if the active-spool selection names the spool; otherwise
\* configured if initial length > 0; otherwise ready.
C17_StateDerived ==
    \A n \in Spools :
        /\ state_sensor[n] \in {"ready", "configured", "active", "empty"}
        /\ state_sensor[n] = "empty" <=>
              (initial_length[n] > 0 /\ used_length[n] >= initial_length[n])
        /\ state_sensor[n] = "active" <=>
              /\ ~(initial_length[n] > 0 /\ used_length[n] >= initial_length[n])
              /\ active_spool = SpoolOption(n)
        /\ state_sensor[n] = "configured" <=>
              /\ ~(initial_length[n] > 0 /\ used_length[n] >= initial_length[n])
              /\ active_spool # SpoolOption(n)
              /\ initial_length[n] > 0
        /\ state_sensor[n] = "ready" <=>
              /\ active_spool # SpoolOption(n)
              /\ initial_length[n] = 0

\* C17 witness: a used-up spool that is also the active spool is empty.
C17_Witness ==
    \E n \in Spools :
        /\ active_spool = SpoolOption(n)
        /\ initial_length[n] > 0
        /\ used_length[n] = initial_length[n]
        /\ state_sensor[n] = "empty"

\* one extrusion field is looked up as C21 says: plain key first, hex key
\* only when the plain one is absent, None when both are
C21_Field(data, plain_key, hex_key, parsed) ==
    /\ plain_key \in DOMAIN data =>
          parsed.some /\ parsed.v = data[plain_key]
    /\ (plain_key \notin DOMAIN data /\ hex_key \in DOMAIN data) =>
          parsed.some /\ parsed.v = data[hex_key]
    /\ (plain_key \notin DOMAIN data /\ hex_key \notin DOMAIN data) =>
          ~parsed.some

\* C21: parsing a printer status takes each extrusion field (total, current)
\* from the plain key whenever that key is present, from the hex-encoded key
\* only when the plain key is absent, keeps a value of 0 as 0, and yields
\* None when neither key is present.
C21_ExtrusionKeys ==
    input.f = "from_json" =>
        /\ C21_Field(input.print_info, TotalExtrusionKey, TotalExtrusionHexKey,
                     output.print_info.total_extrusion)
        /\ C21_Field(input.print_info, CurrentExtrusionKey,
                     CurrentExtrusionHexKey, output.print_info.current_extrusion)

\* C21 witness: a status with a plain total of 0 beside a non-zero hex total,
\* and only the hex key for the current extrusion, has been parsed.
C21_Witness ==
    /\ input.f = "from_json"
    /\ DOMAIN input.print_info =
          {TotalExtrusionKey, TotalExtrusionHexKey, CurrentExtrusionHexKey}
    /\ input.print_info[TotalExtrusionKey] = 0
    /\ input.print_info[TotalExtrusionHexKey] > 0
    /\ output.print_info.total_extrusion = Float(0)
    /\ output.print_info.current_extrusion =
          Float(input.print_info[CurrentExtrusionHexKey])

\* C22: after any number of reloads of the config entry, the end of a
\* tracked print with 0 <= baseline <= final adds round(final - baseline) to
\* the used length of the session's spool exactly once and appends exactly
\* one history record.
C22_ChargedOnce ==
    [][\A n \in Spools :
        (/\ TrackedPrintEnd(n)
         /\ lastOp'.op = "status_change"
         /\ 0 <= print_start_extrusion
         /\ print_start_extrusion <= total_extrusion.v) =>
            /\ used_length'[n] =
                  used_length[n] + round(total_extrusion.v - print_start_extrusion)
            /\ lastOp'.val = 1]_vars

\* C23: the spool charged at the end of a tracked print is the spool that
\* was selected when the print started (the one written to the current print
\* spool entity at the start): with 0 <= baseline <= final its used length
\* grows by round(final - baseline) and no other spool's used length
\* changes, whatever the active-spool selection has become meanwhile.
C23_StartSpoolCharged ==
    [][\A n \in Spools :
        (/\ EndTransition
         /\ tracking_active
         /\ total_extrusion.ok
         /\ current_print_spool = SpoolOption(n)
         /\ 0 <= print_start_extrusion
         /\ print_start_extrusion <= total_extrusion.v) =>
            /\ used_length'[n] =
                  used_length[n] + round(total_extrusion.v - print_start_extrusion)
            /\ \A other \in Spools \ {n} :
                  used_length'[other] = used_length[other]]_vars

\* an undo service call for spool n has been handled in this step
UndoCall(n) ==
    /\ lastOp'.op \in {"undo_last_print", "undo_history_entry"}
    /\ lastOp'.spool = n

\* C24: no print's length is subtracted from a spool's used length more than
\* once.  The last-print length is what is left to undo of the last print:
\* every undo_last_print or undo_history_entry call lowers the used length by
\* no more than that, and lowers what is left by at least as much, so that
\* the calls after a print of length L take off at most L in total.
C24_SubtractedOnce ==
    [][\A n \in Spools :
        UndoCall(n) =>
            LET taken == used_length[n] - used_length'[n]
            IN  /\ taken >= 0
                /\ taken <= last_print_length[n]
                /\ last_print_length'[n] <= last_print_length[n] - taken
                /\ \A other \in Spools \ {n} :
                      used_length'[other] = used_length[other]]_vars

\* C24 witness: a print of non-zero length on a spool that was then marked
\* empty has been undone, and a following undo_history_entry for the print's
\* record has left the used length at the initial length less that print.
C24_Witness ==
    \E n \in Spools :
        /\ lastOp.op = "undo_history_entry"
        /\ lastOp.spool = n
        /\ lastOp.val = 0
        /\ Len(history[n]) = 1
        /\ history[n][1].length_mm > 0
        /\ last_print_length[n] = 0
        /\ initial_length[n] > history[n][1].length_mm
        /\ used_length[n] = initial_length[n] - history[n][1].length_mm

\* setup_spool has been called for spool n in this step
SetupSpoolCall(n) == lastOp'.op = "setup_spool" /\ lastOp'.spool = n

\* C25: setup_spool on a spool whose derived state is configured or active
\* is rejected with a raised error and changes nothing: lock flag, name,
\* material, density, initial length and used length of the spool are as
\* before.
C25_SetupRejected ==
    [][\A n \in Spools :
        (SetupSpoolCall(n) /\ spool_state(n) \in {"configured", "active"}) =>
            /\ lastOp'.err = "ValueError"
            /\ lock'[n] = lock[n]
            /\ name'[n] = name[n]
            /\ material'[n] = material[n]
            /\ density'[n] = density[n]
            /\ initial_length'[n] = initial_length[n]
            /\ used_length'[n] = used_length[n]]_vars

\* C25 witness: setup_spool has been refused for a locked, configured spool
\* that is not the active one.
C25_Witness ==
    \E n \in Spools :
        /\ lastOp.op = "setup_spool"
        /\ lastOp.spool = n
        /\ lastOp.err = "ValueError"
        /\ spool_state(n) = "configured"
        /\ lock[n]
        /\ initial_length[n] > 0

\* C26: after reset_spool(n) or mark_spool_empty(n) on a configured spool n
\* (initial length > 0, not the active spool), a setup_spool(n, ...) that
\* follows is accepted: the state check does not refuse it.
C26_SetupAfterResetOrEmpty ==
    [][\A n \in Spools :
        (/\ SetupSpoolCall(n)
         /\ lastOp.op \in {"reset_spool", "mark_spool_empty"}
         /\ lastOp.spool = n
         /\ initial_length[n] > 0
         /\ active_spool # SpoolOption(n)) =>
            lastOp'.err # "ValueError"]_vars

\* C27: setup_spool on a spool that has never been configured (initial
\* length 0) is accepted, whatever the active-spool selection and the lock
\* flag are: the state check does not refuse it.
C27_NeverConfiguredAccepted ==
    [][\A n \in Spools :
        (SetupSpoolCall(n) /\ initial_length[n] = 0) =>
            lastOp'.err # "ValueError"]_vars

\* C28: after setup_spool(n, name, material, weight, auto_lock) succeeds on
\* a ready or empty spool n, the spool's name and material are the given
\* ones, its density is the table density of the material, its initial
\* length is the length computed from the weight with that density and the
\* current filament diameter, its used length is 0, and its lock flag is on
\* exactly when auto_lock is true.
C28_SetupResult ==
    [][\A n \in Spools, new_name \in Names, new_material \in Materials,
          weight_grams \in 0..MaxWeight, auto_lock \in BOOLEAN :
        (/\ handle_setup_spool(n, new_name, new_material, weight_grams, auto_lock)
         /\ lastOp'.err = "none") =>
            /\ spool_state(n) \in {"ready", "empty"}
            /\ name'[n] = new_name
            /\ material'[n] = new_material
            /\ density'[n] = MATERIAL_DENSITIES(new_material)
            /\ initial_length'[n] =
                  length_from_weight(weight_grams, MATERIAL_DENSITIES(new_material),
                                     filament_diameter)
            /\ used_length'[n] = 0
            /\ lock'[n] = auto_lock]_vars

\* C28 witness: an empty spool has been set up anew as 1 g of PETG named
\* Galaxy Black and left unlocked.
C28_Witness ==
    \E n \in Spools :
        /\ lastOp = Op("setup_spool", n, 1, "none")
        /\ name[n] = "Galaxy Black"
        /\ material[n] = "PETG"
        /\ density[n] = 127
        /\ initial_length[n] = length_from_weight(1, 127, filament_diameter)
        /\ initial_length[n] > 0
        /\ used_length[n] = 0
        /\ ~lock[n]

\* C29: setup_spool is all-or-nothing: when one of its steps fails after the
\* state check has passed, the spool's lock flag, name, material, initial
\* length and used length are what they were before the call.
C29_SetupAllOrNothing ==
    [][\A n \in Spools :
        (SetupSpoolCall(n) /\ lastOp'.err \notin {"none", "ValueError"}) =>
            /\ lock'[n] = lock[n]
            /\ name'[n] = name[n]
            /\ material'[n] = material[n]
            /\ initial_length'[n] = initial_length[n]
            /\ used_length'[n] = used_length[n]]_vars

\* C30: mark_spool_empty(n) sets the used length of spool n to its initial
\* length and changes nothing else: initial length, last-print length,
\* history, lock and the rest of the configuration, the tracker and every
\* other spool's used length are as before; when the initial length is > 0
\* the spool's derived state is then empty.
C30_MarkEmptyFrame ==
    [][\A n \in Spools :
        (lastOp'.op = "mark_spool_empty" /\ lastOp'.spool = n) =>
            /\ used_length'[n] = initial_length[n]
            /\ \A other \in Spools \ {n} : used_length'[other] = used_length[other]
            /\ UNCHANGED <<initial_length, last_print_length, history, lock, name,
                           material, density, set_weight>>
            /\ UNCHANGED <<printer, globals, coordinator, instances>>
            /\ initial_length[n] > 0 =>
                  (spool_state(n)' = "empty" /\ state_sensor'[n] = "empty")]_vars

\* C30 witness: a spool with an initial length, a last print and a history
\* record has been marked empty.
C30_Witness ==
    \E n \in Spools :
        /\ lastOp = Op("mark_spool_empty", n, 0, "none")
        /\ initial_length[n] > 0
        /\ used_length[n] = initial_length[n]
        /\ last_print_length[n] > 0
        /\ Len(history[n]) = 1
        /\ state_sensor[n] = "empty"

\* C31: a tracked print with a non-negative delta that is immediately
\* followed by undo_last_print on the spool it was charged to leaves that
\* spool's used length at its value before the print and its last-print
\* length at 0.
C31_PrintThenUndo ==
    [][\A n \in Spools :
        (/\ UndoLastPrintCall(n)
         /\ lastOp.op = "status_change"
         /\ ended_print.spool = n
         /\ ended_print.extruded >= 0) =>
            /\ used_length'[n] = ended_print.used
            /\ last_print_length'[n] = 0]_vars

\* C31 witness: a print of non-zero length on a spool that had a used length
\* already has been undone, and the used length is the one before the print.
C31_Witness ==
    \E n \in Spools :
        /\ lastOp = Op("undo_last_print", n, 0, "none")
        /\ ended_print.spool = n
        /\ ended_print.extruded > 0
        /\ ended_print.used > 0
        /\ used_length[n] = ended_print.used
        /\ last_print_length[n] = 0
        /\ Len(history[n]) = 1

\* C32: handling a print end changes the used length, last-print length and
\* history of no spool but the session's spool, and leaves the initial
\* length, name, material, density and lock flag of every spool unchanged.
C32_PrintEndFrame ==
    [][EndTransition =>
        /\ \A n \in Spools :
              (\/ used_length'[n] # used_length[n]
               \/ last_print_length'[n] # last_print_length[n]
               \/ history'[n] # history[n]) =>
                  (tracking_active /\ coord_active_spool = SpoolOption(n))
        /\ UNCHANGED <<initial_length, name, material, density, lock>>]_vars

\* C32 witness: a print end has charged spool 2 and written its history
\* while spool 1 keeps nothing of it.
C32_Witness ==
    /\ lastOp = Op("status_change", 0, 0, "none")
    /\ ended_print.spool = 2
    /\ ended_print.extruded > 0
    /\ used_length[2] = ended_print.extruded
    /\ last_print_length[2] = ended_print.extruded
    /\ Len(history[2]) = 1
    /\ used_length[1] = 0
    /\ last_print_length[1] = 0
    /\ history[1] = <<>>

\* C33: when the start of a print was not tracked (tracking switch off, no
\* active spool, or extrusion unavailable at the start), the end of that
\* print writes nothing: no spool's used length, last-print length or
\* history changes, whatever was switched on or selected meanwhile.
C33_UntrackedWritesNothing ==
    [][(EndTransition /\ ~start_tracked) =>
        UNCHANGED <<used_length, last_print_length, history>>]_vars

====
